---- MODULE Spec2Model ----
(***************************************************************************)
(* Runtime utilities of the membership-token program (utils.rs):           *)
(*   assert_derivation, create_or_allocate_account_raw,                    *)
(*   mpl_mint_new_edition_from_master_edition_via_token, puffed_out_string *)
(* Each routine is a state machine of its own (SpecDerivation,             *)
(* SpecProvision, SpecMint, SpecPuff); the variables of the other routines *)
(* stay at their idle values.                                              *)
(***************************************************************************)
EXTENDS Integers, Sequences, FiniteSets, TLC

VARIABLES
    \* ---- create_or_allocate_account_raw ----
    accounts,           \* the ledger: key -> [lamports, data_len, owner, is_signer]
    rent,               \* the Rent sysvar: lamports_per_byte_year
    args,               \* arguments of the call in progress / last returned
    pc,                 \* position inside create_or_allocate_account_raw
    required_lamports,  \* the local of line 82
    entry,              \* the target account as the call found it
    steps,              \* the system instructions this call has issued so far
    result,             \* the ProgramResult of the call
    second,             \* this call repeats, with identical arguments, a call that returned Ok
    \* ---- assert_derivation ----
    d_args, d_result,
    \* ---- mpl_mint_new_edition_from_master_edition_via_token ----
    m_args, m_tx, m_infos, m_result,
    \* ---- puffed_out_string ----
    p_s, p_size, p_checks, p_pc, puff_amount, array_of_zeroes, p_result

provVars  == <<accounts, rent, args, pc, required_lamports, entry, steps, result, second>>
derivVars == <<d_args, d_result>>
mintVars  == <<m_args, m_tx, m_infos, m_result>>
puffVars  == <<p_s, p_size, p_checks, p_pc, puff_amount, array_of_zeroes, p_result>>
vars      == <<provVars, derivVars, mintVars, puffVars>>

Max(a, b) == IF a >= b THEN a ELSE b

(***************************************************************************)
(* Bounds of the model.                                                    *)
(***************************************************************************)
MaxSize  == 2      \* sizes requested / pre-existing data lengths: 0..MaxSize

(***************************************************************************)
(* The ledger the routine runs against.                                    *)
(***************************************************************************)
SYSTEM_PROGRAM == "system"          \* system_program::id()
THIS_PROGRAM   == "program"         \* a program other than the system program
ProgramIds     == {SYSTEM_PROGRAM, THIS_PROGRAM}

NewAccount == "acct"                \* new_account_info.key
Wallet     == "wallet"              \* an ordinary system-owned wallet
Keys       == {NewAccount, Wallet}

\* signer_seeds: seed sets and the program address each one derives to
\* (invoke_signed turns every seed set into a signer for exactly that address).
SeedSets   == {"seeds_acct", "seeds_other"}
SeedAddress(seeds) == IF seeds = "seeds_acct" THEN NewAccount ELSE "pda_other"

\* Rent::minimum_balance(size):
\*   ((ACCOUNT_STORAGE_OVERHEAD + size) * lamports_per_byte_year) * exemption_threshold
ACCOUNT_STORAGE_OVERHEAD        == 128
EXEMPTION_THRESHOLD             == 2
DEFAULT_LAMPORTS_PER_BYTE_YEAR  == 3480
\* the Rent sysvar read at line 81: Rent::free() or Rent::default()
RentRates == {0, DEFAULT_LAMPORTS_PER_BYTE_YEAR}
MinimumBalance(r, size) == ((ACCOUNT_STORAGE_OVERHEAD + size) * r) * EXEMPTION_THRESHOLD

\* u64::saturating_sub
SaturatingSub(a, b) == IF a >= b THEN a - b ELSE 0

\* mutant: the floor of one lamport (`.max(1)`) forgotten
RequiredLamportsNoFloor(r, size, lamports) ==
    SaturatingSub(MinimumBalance(r, size), lamports)

\* lines 82-85
RequiredLamports(r, size, lamports) ==
    SaturatingSub(Max(MinimumBalance(r, size), 1), lamports)

(***************************************************************************)
(* The three system instructions, as the runtime executes them for a       *)
(* cross-program invocation.  Each returns [err, accts]: err = "Ok" and    *)
(* the ledger after the instruction, or the error and the ledger untouched.*)
(***************************************************************************)
\* An account signs an inner instruction when it signed the transaction or
\* when one of the seed sets handed to invoke_signed derives to its address.
IsSigner(accts, key, seedsets) ==
    accts[key].is_signer \/ \E s \in seedsets : SeedAddress(s) = key

Failed(e, accts) == [err |-> e, accts |-> accts]
Done(accts)      == [err |-> "Ok", accts |-> accts]

\* lines 89-96: invoke(system_instruction::transfer(payer, new_account, lamports))
SystemTransfer(accts, from, to, lamports) ==
    IF ~IsSigner(accts, from, {}) THEN Failed("PrivilegeEscalation", accts)
    ELSE IF accts[from].data_len > 0 THEN Failed("InvalidArgument", accts)
    ELSE IF lamports > accts[from].lamports THEN Failed("InsufficientFunds", accts)
    ELSE IF accts[from].owner # SYSTEM_PROGRAM /\ from # to
         THEN Failed("ExternalAccountLamportSpend", accts)
    ELSE LET debited  == [accts EXCEPT ![from].lamports = @ - lamports]
             credited == [debited EXCEPT ![to].lamports = @ + lamports]
         IN  Done(credited)

\* lines 102-106: invoke_signed(system_instruction::allocate(new_account, size), seeds)
SystemAllocate(accts, key, space, seedsets) ==
    IF ~IsSigner(accts, key, seedsets) THEN Failed("PrivilegeEscalation", accts)
    ELSE IF accts[key].data_len > 0 \/ accts[key].owner # SYSTEM_PROGRAM
         THEN Failed("AccountAlreadyInUse", accts)
    ELSE Done([accts EXCEPT ![key].data_len = space])

\* lines 109-113: invoke_signed(system_instruction::assign(new_account, program_id), seeds)
SystemAssign(accts, key, owner, seedsets) ==
    IF ~IsSigner(accts, key, seedsets) THEN Failed("PrivilegeEscalation", accts)
    ELSE IF accts[key].owner = owner THEN Done(accts)
    ELSE IF accts[key].owner # SYSTEM_PROGRAM THEN Failed("ModifiedProgramId", accts)
    ELSE Done([accts EXCEPT ![key].owner = owner])

(***************************************************************************)
(* create_or_allocate_account_raw                                          *)
(***************************************************************************)
NoArgs == [program_id |-> "none", payer |-> "none", size |-> 0,
           signer_seeds |-> "none", rent_ok |-> FALSE]

ArgSets == [program_id : ProgramIds, payer : Keys, size : 0..MaxSize,
            signer_seeds : SeedSets, rent_ok : BOOLEAN]

NoEntry == [lamports |-> 0, data_len |-> 0, owner |-> "none", is_signer |-> FALSE]

\* Starting balances: zero, one, and just below and at every rent-exempt minimum.
StartBalances ==
    {0, 1} \cup
    { b \in { MinimumBalance(r, sz) + d : r \in RentRates, sz \in 0..MaxSize,
                                          d \in {-1, 0} } : b >= 0 }

\* a wallet is empty or can pay any top-up of the model
RichWallet == MinimumBalance(DEFAULT_LAMPORTS_PER_BYTE_YEAR, MaxSize) + 1

ProvIdle ==
    /\ accounts = [k \in Keys |-> NoEntry]
    /\ rent = 0
    /\ args = NoArgs
    /\ pc = "off"
    /\ required_lamports = 0
    /\ entry = NoEntry
    /\ steps = <<>>
    /\ result = "none"
    /\ second = FALSE

ProvStart ==
    /\ \E b \in StartBalances, len \in 0..MaxSize, o \in ProgramIds,
          sig \in BOOLEAN, wb \in {0, RichWallet},
          wsig \in BOOLEAN :
          accounts = [k \in Keys |->
              IF k = NewAccount
              THEN [lamports |-> b, data_len |-> len, owner |-> o, is_signer |-> sig]
              ELSE [lamports |-> wb, data_len |-> 0, owner |-> SYSTEM_PROGRAM,
                    is_signer |-> wsig]]
    /\ rent \in RentRates
    /\ args = NoArgs
    /\ pc = "idle"
    /\ required_lamports = 0
    /\ entry = NoEntry
    /\ steps = <<>>
    /\ result = "none"
    /\ second = FALSE

\* lines 72-87: entry, Rent::from_account_info(..)?, required_lamports
Call(a) ==
    /\ pc \in {"idle", "done"}
    /\ args' = a
    /\ second' = (pc = "done" /\ result = "Ok" /\ a = args)
    /\ entry' = accounts[NewAccount]
    /\ steps' = <<>>
    /\ IF ~a.rent_ok
       THEN /\ required_lamports' = 0
            /\ result' = "InvalidArgument"
            /\ pc' = "done"
       ELSE /\ required_lamports' =
                  RequiredLamports(rent, a.size, accounts[NewAccount].lamports)
            /\ result' = "none"
            /\ pc' = IF required_lamports' > 0 THEN "transfer" ELSE "allocate"
    /\ UNCHANGED <<accounts, rent>>

\* mutant: the `?` forgotten, the routine goes on after a failed instruction
IssueIgnoringError(name, amount, out, next) ==
    /\ steps' = Append(steps, [instr |-> name, amount |-> amount, err |-> out.err])
    /\ accounts' = out.accts
    /\ pc' = next
    /\ result' = IF next = "done" THEN "Ok" ELSE result
    /\ UNCHANGED <<rent, args, required_lamports, entry, second>>

\* `invoke(..)?` / `invoke_signed(..)?`: log the instruction, keep the ledger
\* it leaves, and either go on to `next` or return its error.
Issue(name, amount, out, next) ==
    /\ steps' = Append(steps, [instr |-> name, amount |-> amount, err |-> out.err])
    /\ accounts' = out.accts
    /\ IF out.err = "Ok"
       THEN /\ pc' = next
            /\ result' = IF next = "done" THEN "Ok" ELSE result
       ELSE /\ pc' = "done"
            /\ result' = out.err
    /\ UNCHANGED <<rent, args, required_lamports, entry, second>>

\* mutant: payer and new account swapped in the transfer
TransferReversed ==
    /\ pc = "transfer"
    /\ Issue("transfer", required_lamports,
             SystemTransfer(accounts, NewAccount, args.payer, required_lamports),
             "allocate")

\* lines 87-97
Transfer ==
    /\ pc = "transfer"
    /\ Issue("transfer", required_lamports,
             SystemTransfer(accounts, args.payer, NewAccount, required_lamports),
             "allocate")

\* mutant: the buffer resized in place instead of through a signed allocate
AllocateInPlace ==
    /\ pc = "allocate"
    /\ Issue("allocate", args.size,
             Done([accounts EXCEPT ![NewAccount].data_len = args.size]),
             "assign")

\* lines 99-106
Allocate ==
    /\ pc = "allocate"
    /\ Issue("allocate", args.size,
             SystemAllocate(accounts, NewAccount, args.size, {args.signer_seeds}),
             "assign")

\* mutant: the account assigned to the system program, not to program_id
AssignToSystem ==
    /\ pc = "assign"
    /\ Issue("assign", 0,
             SystemAssign(accounts, NewAccount, SYSTEM_PROGRAM, {args.signer_seeds}),
             "done")

\* lines 108-115
Assign ==
    /\ pc = "assign"
    /\ Issue("assign", 0,
             SystemAssign(accounts, NewAccount, args.program_id, {args.signer_seeds}),
             "done")

(***************************************************************************)
(* assert_derivation                                                       *)
(***************************************************************************)
MaxPathLen == 2     \* derivation paths hold 0..MaxPathLen seeds
MaxBump    == 3     \* bump seeds tried by find_program_address: MaxBump down to 1
AddrSpace  == 8     \* addresses are 0..AddrSpace-1

Seeds     == {1, 2}
Paths     == UNION { [1..n -> Seeds] : n \in 0..MaxPathLen }
DerivPids == {1, 2}
Addresses == 0..(AddrSpace - 1)

RECURSIVE PathCode(_)
PathCode(path) ==
    IF path = <<>> THEN 1
    ELSE (PathCode(SubSeq(path, 1, Len(path) - 1)) * 3 + path[Len(path)])

\* Pubkey::create_program_address: the digest of the seeds, the bump and the
\* program id; it is no program address when it lies on the curve.
Digest(path, bump, pid) == (PathCode(path) * 5 + bump * 3 + pid * 7) % AddrSpace
OnCurve(addr) == addr % 3 = 0

\* Pubkey::find_program_address: the first bump, from the top, whose digest
\* is off the curve; panics when there is none.
RECURSIVE TryFindProgramAddress(_, _, _)
TryFindProgramAddress(path, pid, bump) ==
    IF bump < 1 THEN [found |-> FALSE, key |-> 0, bump |-> 0]
    ELSE IF ~OnCurve(Digest(path, bump, pid))
         THEN [found |-> TRUE, key |-> Digest(path, bump, pid), bump |-> bump]
         ELSE TryFindProgramAddress(path, pid, bump - 1)

FindProgramAddress(path, pid) == TryFindProgramAddress(path, pid, MaxBump)

NoDResult == [kind |-> "none", bump |-> 0, err |-> "none"]

\* mutant: the comparison of line 28 inverted
assert_derivation_inverted(program_id, account_key, path) ==
    LET found == FindProgramAddress(path, program_id)
    IN  IF ~found.found
        THEN [kind |-> "panic", bump |-> 0, err |-> "no viable bump seed"]
        ELSE IF found.key = account_key
             THEN [kind |-> "Err", bump |-> 0, err |-> "DerivedKeyInvalid"]
             ELSE [kind |-> "Ok", bump |-> found.bump, err |-> "none"]

\* lines 22-32
assert_derivation(program_id, account_key, path) ==
    LET found == FindProgramAddress(path, program_id)
    IN  IF ~found.found
        THEN [kind |-> "panic", bump |-> 0, err |-> "no viable bump seed"]
        ELSE IF found.key # account_key
             THEN [kind |-> "Err", bump |-> 0, err |-> "DerivedKeyInvalid"]
             ELSE [kind |-> "Ok", bump |-> found.bump, err |-> "none"]

NoDArgs == [program_id |-> 0, account_key |-> 0, path |-> <<>>]

DerivIdle == d_args = NoDArgs /\ d_result = NoDResult

DerivStart ==
    /\ d_args \in [program_id : DerivPids, account_key : Addresses, path : Paths]
    /\ d_result = NoDResult

(***************************************************************************)
(* mpl_mint_new_edition_from_master_edition_via_token                      *)
(***************************************************************************)
MaxEdition == 1

\* the parameters that name an account or a key, in declaration order
Params == <<"new_metadata", "new_edition", "new_mint", "new_mint_authority",
            "user_wallet", "token_account_owner", "token_account",
            "master_metadata", "master_edition", "metadata_mint",
            "edition_marker", "token_program", "system_program", "rent">>
ParamSet == { Params[i] : i \in 1..Len(Params) }

\* every parameter bound to an address of its own
Distinct == [p \in ParamSet |-> CHOOSE i \in 1..Len(Params) : Params[i] = p]

NoMArgs == [keys |-> [p \in ParamSet |-> 0], edition |-> 0]
NoTx    == [program_id |-> "none", keys |-> <<>>, edition |-> 0]

MintIdle ==
    /\ m_args = NoMArgs
    /\ m_tx = NoTx
    /\ m_infos = <<>>
    /\ m_result = "none"

\* lines 138-152: the instruction built for the token-metadata program
MintInstruction(k, edition) ==
    [program_id |-> "mpl_token_metadata",
     keys |-> << k["new_metadata"], k["new_edition"], k["master_edition"],
                 k["new_mint"], k["new_mint_authority"], k["user_wallet"],
                 k["token_account_owner"], k["token_account"], k["user_wallet"],
                 k["master_metadata"], k["metadata_mint"] >>,
     edition |-> edition]

\* mutant: master_edition and new_mint swapped in the account list
MintAccountInfosSwapped(k) ==
    << k["new_metadata"], k["new_edition"], k["new_mint"], k["master_edition"],
       k["edition_marker"], k["new_mint_authority"], k["user_wallet"],
       k["token_account_owner"], k["token_account"], k["user_wallet"],
       k["master_metadata"], k["token_program"], k["system_program"], k["rent"] >>

\* lines 156-171: the accounts handed to invoke_signed
MintAccountInfos(k) ==
    << k["new_metadata"], k["new_edition"], k["master_edition"], k["new_mint"],
       k["edition_marker"], k["new_mint_authority"], k["user_wallet"],
       k["token_account_owner"], k["token_account"], k["user_wallet"],
       k["master_metadata"], k["token_program"], k["system_program"], k["rent"] >>

MintStart ==
    /\ \E p \in ParamSet, q \in ParamSet, e \in 0..MaxEdition :
          m_args = [keys |-> [Distinct EXCEPT ![p] = Distinct[q]], edition |-> e]
    /\ m_tx = NoTx
    /\ m_infos = <<>>
    /\ m_result = "none"

\* lines 120-176; the outcome of the foreign program is its own
MintNewEdition ==
    /\ m_result = "none"
    /\ m_args # NoMArgs
    /\ m_tx' = MintInstruction(m_args.keys, m_args.edition)
    /\ m_infos' = MintAccountInfos(m_args.keys)
    /\ \E r \in {"Ok", "Custom"} : m_result' = r
    /\ UNCHANGED <<m_args, provVars, derivVars, puffVars>>

(***************************************************************************)
(* puffed_out_string                                                       *)
(***************************************************************************)
MaxLen     == 2     \* byte length of s: 0..MaxLen
MaxTarget  == 3     \* size: 0..MaxTarget
UsizeBits  == 4     \* width of usize

Bytes    == {0, 97, 98}
Strings  == UNION { [1..n -> Bytes] : n \in 0..MaxLen }
UsizeMod == 2 ^ UsizeBits
IsizeMax == 2 ^ (UsizeBits - 1) - 1     \* a Vec holds at most isize::MAX bytes

NoPResult == [kind |-> "none", value |-> <<>>]

PuffIdle ==
    /\ p_s = <<>>
    /\ p_size = 0
    /\ p_checks = FALSE
    /\ p_pc = "off"
    /\ puff_amount = 0
    /\ array_of_zeroes = <<>>
    /\ p_result = NoPResult

PuffInputs ==
    /\ p_s \in { s \in Strings : Len(s) <= IsizeMax }
    /\ p_size \in { n \in 0..MaxTarget : n < UsizeMod }
    /\ p_checks \in BOOLEAN         \* overflow-checks on (debug) or off (release)
    /\ p_pc = "start"
    /\ puff_amount = 0
    /\ array_of_zeroes = <<>>
    /\ p_result = NoPResult

\* mutant: one zero too many
PuffAmountOffByOne(size, len) == (size - len + 1) % UsizeMod

\* mutant: `size.saturating_sub(s.len())`
PuffAmountSaturating(size, len) == IF size >= len THEN size - len ELSE 0

\* line 180: `size - s.len()` in usize, without overflow checks
PuffAmount(size, len) == (size - len) % UsizeMod

\* lines 179-180
PuffStart ==
    /\ p_pc = "start"
    /\ array_of_zeroes' = <<>>
    /\ IF p_checks /\ p_size < Len(p_s)
       THEN /\ p_result' = [kind |-> "panic", value |-> <<>>]
            /\ p_pc' = "done"
            /\ UNCHANGED puff_amount
       ELSE /\ puff_amount' = PuffAmount(p_size, Len(p_s))
            /\ p_pc' = "loop"
            /\ UNCHANGED p_result
    /\ UNCHANGED <<p_s, p_size, p_checks, provVars, derivVars, mintVars>>

\* lines 181-183: one turn of the loop; a push past the capacity limit aborts
PuffPush ==
    /\ p_pc = "loop"
    /\ Len(array_of_zeroes) < puff_amount
    /\ IF Len(array_of_zeroes) >= IsizeMax
       THEN /\ p_result' = [kind |-> "panic", value |-> <<>>]
            /\ p_pc' = "done"
            /\ UNCHANGED array_of_zeroes
       ELSE /\ array_of_zeroes' = Append(array_of_zeroes, 0)
            /\ UNCHANGED <<p_pc, p_result>>
    /\ UNCHANGED <<p_s, p_size, p_checks, puff_amount, provVars, derivVars, mintVars>>

\* line 184
PuffReturn ==
    /\ p_pc = "loop"
    /\ ~(Len(array_of_zeroes) < puff_amount)
    /\ p_result' = [kind |-> "Ok", value |-> p_s \o array_of_zeroes]
    /\ p_pc' = "done"
    /\ UNCHANGED <<p_s, p_size, p_checks, puff_amount, array_of_zeroes,
                   provVars, derivVars, mintVars>>

(***************************************************************************)
(* The specifications.                                                     *)
(***************************************************************************)
AssertDerivation ==
    /\ d_result = NoDResult
    /\ d_args # NoDArgs
    /\ d_result' = assert_derivation(d_args.program_id, d_args.account_key, d_args.path)
    /\ UNCHANGED <<d_args, provVars, mintVars, puffVars>>

CreateOrAllocate ==
    /\ \E a \in ArgSets : Call(a)
    /\ UNCHANGED <<derivVars, mintVars, puffVars>>

TransferStep == Transfer /\ UNCHANGED <<derivVars, mintVars, puffVars>>
AllocateStep == Allocate /\ UNCHANGED <<derivVars, mintVars, puffVars>>
AssignStep   == Assign /\ UNCHANGED <<derivVars, mintVars, puffVars>>

NextProvision == CreateOrAllocate \/ TransferStep \/ AllocateStep \/ AssignStep
NextDerivation == AssertDerivation
NextMint == MintNewEdition
NextPuff == PuffStart \/ PuffPush \/ PuffReturn

InitProvision  == ProvStart /\ DerivIdle /\ MintIdle /\ PuffIdle
InitDerivation == DerivStart /\ ProvIdle /\ MintIdle /\ PuffIdle
InitMint       == MintStart /\ ProvIdle /\ DerivIdle /\ PuffIdle
InitPuff       == PuffInputs /\ ProvIdle /\ DerivIdle /\ MintIdle

SpecProvision  == InitProvision /\ [][NextProvision]_vars
SpecDerivation == InitDerivation /\ [][NextDerivation]_vars
SpecMint       == InitMint /\ [][NextMint]_vars
SpecPuff       == InitPuff /\ [][NextPuff]_vars

(***************************************************************************)
(* Properties of create_or_allocate_account_raw (under SpecProvision).     *)
(***************************************************************************)
Target      == accounts[NewAccount]
TargetNext  == accounts'[NewAccount]
Minimum     == MinimumBalance(rent, args.size)
SeedsMatch  == SeedAddress(args.signer_seeds) = NewAccount

\* the call got past Rent::from_account_info and past the top-up decision
Decided     == args.rent_ok /\ pc \in {"allocate", "assign", "done"}
Returned    == pc = "done" /\ args # NoArgs

TransferIssued == steps # <<>> /\ steps[1].instr = "transfer"
Requested      == IF TransferIssued THEN steps[1].amount ELSE 0

\* the account the call found already had the size, owner and balance asked for
EntryConforms ==
    /\ entry.data_len = args.size
    /\ entry.owner = args.program_id
    /\ entry.lamports >= Max(Minimum, 1)

\* C1: a second call with identical arguments, on an account the first call
\* left at the target size, owner and balance, issues no funding transfer and
\* returns Ok.
C1_SecondCallSucceeds ==
    (second /\ args.rent_ok /\ EntryConforms) =>
        /\ ~TransferIssued
        /\ pc # "transfer"
        /\ (pc = "done" => result = "Ok")

\* C2 as stated: below minimum(size) the transfer is minimum(size) - balance,
\* at or above minimum(size) there is no transfer.
C2_TopUpToMinimum ==
    Decided =>
        /\ (entry.lamports < Minimum =>
                TransferIssued /\ Requested = Minimum - entry.lamports)
        /\ (entry.lamports >= Minimum => ~TransferIssued)

\* C2 amended: the target of the top-up is max(minimum(size), 1): below it
\* the transfer is exactly max(minimum(size), 1) - balance (a positive
\* amount), at or above it there is no transfer; a transfer that succeeds
\* from another account raises the balance by exactly that amount.
C2_TopUpToFloor ==
    Decided =>
        /\ (entry.lamports < Max(Minimum, 1) =>
                /\ TransferIssued
                /\ Requested = Max(Minimum, 1) - entry.lamports
                /\ Requested > 0)
        /\ (entry.lamports >= Max(Minimum, 1) => ~TransferIssued)
        /\ Len(SelectSeq(steps, LAMBDA s : s.instr = "transfer")) <= 1
        /\ (TransferIssued /\ steps[1].err = "Ok" /\ args.payer # NewAccount =>
                Target.lamports = entry.lamports + Requested)

\* a call on an empty ledger (no rent, no balance) has topped the account up
C2_Witness ==
    /\ Decided
    /\ Minimum = 0
    /\ entry.lamports = 0
    /\ TransferIssued /\ steps[1].err = "Ok"
    /\ Target.lamports = 1

\* C5 as stated: a call whose signer_seeds do not derive to the target's
\* address changes none of balance, size and owner.
C5_NoChangeWithoutProof ==
    [][~SeedsMatch =>
          /\ TargetNext.lamports = Target.lamports
          /\ TargetNext.data_len = Target.data_len
          /\ TargetNext.owner = Target.owner]_vars

\* C5 amended: size and owner change only when the signer_seeds derive to
\* the target's address or the target itself signed the transaction; the
\* balance changes only by the top-up transfer, which the payer's signature
\* authorizes whatever the signer_seeds are.
C5_SizeOwnerNeedProof ==
    [][/\ (TargetNext.data_len # Target.data_len \/ TargetNext.owner # Target.owner)
            => (SeedsMatch \/ Target.is_signer)
       /\ TargetNext.lamports # Target.lamports
            => /\ pc = "transfer"
               /\ IsSigner(accounts, args.payer, {})
               /\ TargetNext.lamports = Target.lamports + required_lamports]_vars

\* a call with foreign seeds was topped up and then refused at allocate
C5_Witness ==
    /\ Returned
    /\ ~SeedsMatch /\ ~Target.is_signer
    /\ Target.lamports > entry.lamports
    /\ result = "PrivilegeEscalation"
    /\ Target.data_len = entry.data_len /\ Target.owner = entry.owner

\* C6: no step of any call lowers the target's balance or shrinks its
\* allocation, so no sequence of calls does.
C6_NeverLowered ==
    [][/\ TargetNext.lamports >= Target.lamports
       /\ TargetNext.data_len >= Target.data_len]_vars

\* a call asking for less than the existing allocation topped the account
\* up and left the allocation alone
C6_Witness ==
    /\ Returned
    /\ args.size < entry.data_len
    /\ Target.lamports > entry.lamports
    /\ Target.data_len = entry.data_len
    /\ result = "AccountAlreadyInUse"

\* the instructions a call issues when nothing fails
Order == IF required_lamports > 0 THEN <<"transfer", "allocate", "assign">>
         ELSE <<"allocate", "assign">>

\* C9: the steps are issued in the order transfer (only when the top-up is
\* positive), allocate, assign, each at most once; a failed step is the last
\* one and its error is the routine's result.
C9_StepsInOrder ==
    /\ Len(steps) <= Len(Order)
    /\ \A i \in 1..Len(steps) : steps[i].instr = Order[i]
    /\ \A i \in 1..(Len(steps) - 1) : steps[i].err = "Ok"
    /\ (pc \in {"transfer", "allocate", "assign"} =>
            \A i \in 1..Len(steps) : steps[i].err = "Ok")
    /\ (Returned /\ ~args.rent_ok => steps = <<>> /\ result = "InvalidArgument")
    /\ (Returned /\ args.rent_ok =>
            /\ steps # <<>>
            /\ result = steps[Len(steps)].err
            /\ (result = "Ok" => Len(steps) = Len(Order)))

\* the transfer went through, allocate failed, and nothing followed it
C9_Witness ==
    /\ Returned
    /\ Len(steps) = 2
    /\ steps[1].instr = "transfer" /\ steps[1].err = "Ok"
    /\ steps[2].instr = "allocate" /\ steps[2].err = "AccountAlreadyInUse"
    /\ result = "AccountAlreadyInUse"

\* C10 as stated: Ok means balance >= max(minimum(size), 1), data length =
\* size, owner = program_id.
C10_OkMeansProvisioned ==
    (Returned /\ result = "Ok") =>
        /\ Target.lamports >= Max(Minimum, 1)
        /\ Target.data_len = args.size
        /\ Target.owner = args.program_id

\* C10 amended: Ok means data length = size and owner = program_id, and,
\* when the payer is another account than the target, balance >=
\* max(minimum(size), 1).
C10_OkMeansProvisionedByOther ==
    (Returned /\ result = "Ok") =>
        /\ (args.payer # NewAccount => Target.lamports >= Max(Minimum, 1))
        /\ Target.data_len = args.size
        /\ Target.owner = args.program_id

\* an unfunded account without rent was brought to one lamport, sized and assigned
C10_Witness ==
    /\ Returned /\ result = "Ok"
    /\ Minimum = 0 /\ entry.lamports = 0
    /\ Target.lamports = 1
    /\ entry.data_len = 0 /\ args.size > 0 /\ Target.data_len = args.size
    /\ entry.owner # args.program_id /\ Target.owner = args.program_id

(***************************************************************************)
(* Properties of assert_derivation (under SpecDerivation).                 *)
(***************************************************************************)
\* derive(path, program_identity), stated apart from the search: the bumps
\* that give a program address, and the canonical one, the largest of them
ViableBumps(path, pid) == { b \in 1..MaxBump : ~OnCurve(Digest(path, b, pid)) }
DeriveBump(path, pid) ==
    CHOOSE b \in ViableBumps(path, pid) : \A c \in ViableBumps(path, pid) : c <= b
DeriveAddress(path, pid) == Digest(path, DeriveBump(path, pid), pid)

Derivable == ViableBumps(d_args.path, d_args.program_id) # {}
Asserted  == d_result # NoDResult

\* C3: where derive(path, program_identity) exists, assert_derivation returns
\* Ok with its bump iff the account's address is the derived address, and
\* fails with DerivedKeyInvalid, and nothing else, for every other account.
C3_OkIffDerived ==
    (Asserted /\ Derivable) =>
        LET address == DeriveAddress(d_args.path, d_args.program_id)
            bump    == DeriveBump(d_args.path, d_args.program_id)
        IN  /\ d_result.kind = "Ok" <=> d_args.account_key = address
            /\ d_result.kind = "Ok" => d_result.bump = bump
            /\ d_args.account_key # address =>
                   d_result.kind = "Err" /\ d_result.err = "DerivedKeyInvalid"

\* an account at the derived address was accepted with a bump below the top one
C3_Witness ==
    /\ Asserted /\ Derivable
    /\ d_result.kind = "Ok"
    /\ d_result.bump < MaxBump
    /\ d_args.account_key = DeriveAddress(d_args.path, d_args.program_id)

(***************************************************************************)
(* Properties of mpl_mint_new_edition_from_master_edition_via_token        *)
(* (under SpecMint).                                                       *)
(***************************************************************************)
Minted == m_result # "none"
Range(seq) == { seq[i] : i \in 1..Len(seq) }

\* C4 as stated: fourteen distinct accounts, in the order of the parameters
C4_DeclaredOrder ==
    Minted =>
        /\ Len(m_infos) = 14
        /\ m_infos = [i \in 1..14 |-> m_args.keys[Params[i]]]
        /\ (m_args.keys = Distinct => Cardinality(Range(m_infos)) = 14)

\* C4 amended: fourteen account entries in the order new metadata, new
\* edition, master edition, new mint, edition marker, new mint authority,
\* user wallet, token-account owner, token account, user wallet again,
\* master metadata, token program, system program, rent source; the mint of
\* the item being copied is no entry of the list, it is the last key of the
\* instruction only.
C4_WireOrder ==
    Minted =>
        /\ Len(m_infos) = 14
        /\ m_infos = [i \in 1..14 |-> m_args.keys[
               << "new_metadata", "new_edition", "master_edition", "new_mint",
                  "edition_marker", "new_mint_authority", "user_wallet",
                  "token_account_owner", "token_account", "user_wallet",
                  "master_metadata", "token_program", "system_program",
                  "rent" >>[i]]]
        /\ m_infos[7] = m_infos[10]
        /\ (m_args.keys = Distinct =>
               /\ Cardinality(Range(m_infos)) = 13
               /\ m_args.keys["metadata_mint"] \notin Range(m_infos))
        /\ m_tx.keys[Len(m_tx.keys)] = m_args.keys["metadata_mint"]
        /\ m_tx.edition = m_args.edition

\* an invocation with every parameter bound to an account of its own
C4_Witness ==
    /\ Minted
    /\ m_args.keys = Distinct
    /\ Len(m_infos) = 14
    /\ m_infos[3] = m_args.keys["master_edition"]

(***************************************************************************)
(* Properties of puffed_out_string (under SpecPuff).                       *)
(***************************************************************************)
PuffDone == p_pc = "done"

\* C7: with length(value) <= target_size the result has exactly target_size
\* bytes: value, unchanged, then target_size - length(value) zero bytes.
C7_PaddedToSize ==
    (PuffDone /\ Len(p_s) <= p_size) =>
        /\ p_result.kind = "Ok"
        /\ Len(p_result.value) = p_size
        /\ SubSeq(p_result.value, 1, Len(p_s)) = p_s
        /\ \A i \in (Len(p_s) + 1)..p_size : p_result.value[i] = 0

\* a value shorter than the target came back padded
C7_Witness ==
    /\ PuffDone
    /\ p_s # <<>> /\ Len(p_s) < p_size
    /\ p_result.kind = "Ok"
    /\ Len(p_result.value) = p_size

====
